---- MODULE Spec2Model ----
(***************************************************************************)
(* State-machine model of the training / evaluation core of                *)
(* sl-transformer (src/sl_transformer.py, src/model/util/util.py):         *)
(* NoamOpt, LabelSmoothing, Batch and its masks, the loss computes,        *)
(* run_epoch / run_training, greedy_decode and calculate_accuracy.         *)
(*                                                                         *)
(* Real numbers.  A probability mass is an exact rational <<n, d>>, d > 0. *)
(* A learning rate involves square roots, so a rate r >= 0 is held as the  *)
(* exact rational r^2; squaring is strictly monotone on r >= 0, hence      *)
(* order, equality and min of rates are those of their squares.  Floating  *)
(* point rounding is not modelled.  <<0, 0>> stands for a raised           *)
(* ZeroDivisionError.                                                      *)
(***************************************************************************)
EXTENDS Integers, Sequences, FiniteSets, TLC

VARIABLES
    pc,        \* position of the procedure being run
    opt,       \* the NoamOpt object (with the optimizer it wraps)
    nsteps,    \* history: number of NoamOpt.step() calls made
    rates,     \* history: rates[k] = rate computed by the k-th step() call
    queried,   \* history: <<s, rate(step=s)>> of the last explicit rate call
    criterion, \* the LabelSmoothing object
    target,    \* the target vector of the last LabelSmoothing.forward call
    raw,       \* the torchtext batch at hand (time-major src and trg)
    batch,     \* the Batch built from it by rebatch (<<>> before that)
    gen_masks, \* generate_mask(src), generate_mask(tgt) of Transformer.forward
    max_len,   \* greedy_decode's max_len
    ys,        \* greedy_decode's ys: one row of token ids per sequence
    i,         \* greedy_decode's loop index: decoding steps made
    test_iter, \* calculate_accuracy: batches the iterator has yet to yield
    total,     \* calculate_accuracy's total
    correct,   \* calculate_accuracy's correct
    tgt,       \* calculate_accuracy's tgt of the batch just scored
    accuracy,  \* calculate_accuracy's result (<<>> until it returns)
    seen,      \* history: sequences scored, and how many of them agreed
    cfg,       \* run_training's arguments
    epoch,     \* run_training's epoch
    ep,        \* run_epoch's locals (and the lines it has logged)
    grad,      \* backward passes accumulated in the parameters' .grad
    call,      \* history: the last loss-compute call and what it did, in order
    loss,      \* the loss run_epoch returned for the last evaluation
    fed        \* history: <<criterion value, ntokens>> of each batch of a
               \* run_epoch examined on its own

noamVars == <<opt, nsteps, rates, queried>>
labelVars == <<criterion, target>>
batchVars == <<raw, batch, gen_masks>>
decodeVars == <<max_len, ys, i>>
accVars == <<test_iter, total, correct, tgt, accuracy, seen>>
trainVars == <<cfg, epoch, ep, grad, call, loss, fed>>

\* ------------------------------------------------------------------ bounds
MaxStep == 6          \* step() calls explored on one NoamOpt
MaxWarmup == 3        \* warmup drawn from 1..MaxWarmup
MaxModelSize == 2     \* model_size drawn from 1..MaxModelSize
MaxFactor == 2        \* factor drawn from 1..MaxFactor
NGroups == 2          \* parameter groups of the wrapped optimizer
MaxWords == 1         \* ordinary words in a vocabulary, besides the specials
MaxRows == 2          \* rows (flattened batch x time) given to the criterion
MaxBatch == 2         \* sequences in a batch
MaxTrgLen == 3        \* padded target length, <bos> and <eos> included
MaxSrcLen == 2        \* padded source length
MaxLen == 3           \* greedy_decode's max_len (calculate_accuracy passes 60)
MaxBatches == 2       \* batches a validation iterator yields
AccBatch == 1         \* sequences in a validation batch of calculate_accuracy
AccLen == 2           \* max_len calculate_accuracy decodes with (the code: 60)
MaxEpochs == 2        \* run_training's epochs
MaxTrainBatches == 3  \* batches the training iterator yields per epoch
MaxValidBatches == 1  \* batches the validation iterator yields per epoch
MaxLogInterval == 2   \* log_interval drawn from 1..MaxLogInterval
MaxTokens == 2        \* non-padding target tokens of a batch
MaxLoss == 1          \* criterion value of a batch (or of a chunk)
MaxOutLen == 6        \* time steps of a model output

\* --------------------------------------------------------------- rationals
RLe(a, b) == a[1] * b[2] <= b[1] * a[2]
RLt(a, b) == a[1] * b[2] < b[1] * a[2]
REq(a, b) == a[1] * b[2] = b[1] * a[2]
RMul(a, b) == <<a[1] * b[1], a[2] * b[2]>>
RAdd(a, b) == <<a[1] * b[2] + b[1] * a[2], a[2] * b[2]>>
RSub(a, b) == <<a[1] * b[2] - b[1] * a[2], a[2] * b[2]>>
\* a / k for an integer k; k = 0 gives the error value (denominator 0)
RDivInt(a, k) == <<a[1], a[2] * k>>
RZero == <<0, 1>>
ROne == <<1, 1>>
\* Python's min(a, b): b only when b < a
RMin(a, b) == IF RLt(b, a) THEN b ELSE a
RMax(a, b) == IF RLt(a, b) THEN b ELSE a

RateError == <<0, 0>>
IsError(r) == r[2] = 0

\* a float that is not a number (0/0, inf * 0, and anything added to it)
NaN == <<0, 0>>
IsNaN(r) == r[2] = 0
\* canonical form of a float: NaN, or a whole number as <<n, 1>>
Reduce(r) ==
    IF r[2] = 0 THEN NaN
    ELSE IF r[1] % r[2] = 0 THEN <<r[1] \div r[2], 1>>
    ELSE r

\* ----------------------------------------------------------------- NoamOpt
\* configured Adam lr (run_training's lr), as a square
LrInit == <<1, 1>>

\* NoamOpt.__init__: _step = 0, _rate = 0; the wrapped optimizer's groups
\* still carry the configured lr and no update has been applied.
NoamOptInit(model_size, factor, warmup) ==
    [ model_size   |-> model_size,
      factor       |-> factor,
      warmup       |-> warmup,
      _step        |-> 0,
      _rate        |-> RZero,
      param_groups |-> [g \in 1..NGroups |-> LrInit],
      applied      |-> [g \in 1..NGroups |-> LrInit],
      updates      |-> 0,
      rate_arg     |-> -1 ]

\* mutant of rate: max in place of min
rate_max(o, step) ==
    IF step = 0 \/ o.model_size = 0 \/ o.warmup = 0 THEN RateError
    ELSE RMul(<<o.factor * o.factor, 1>>,
              RMul(<<1, o.model_size>>,
                   RMax(<<1, step>>,
                        <<step * step, o.warmup * o.warmup * o.warmup>>)))

\* NoamOpt.rate, squared:
\*   (factor * model_size^-0.5 * min(step^-0.5, step * warmup^-1.5))^2
\* step^-0.5 squared is 1/step; (step * warmup^-1.5) squared is
\* step^2 / warmup^3.  0 ** (-0.5) and 0 ** (-1.5) raise
\* ZeroDivisionError: at step 0, model_size 0 or warmup 0.
rate(o, step) ==
    IF step = 0 \/ o.model_size = 0 \/ o.warmup = 0 THEN RateError
    ELSE RMul(<<o.factor * o.factor, 1>>,
              RMul(<<1, o.model_size>>,
                   RMin(<<1, step>>,
                        <<step * step, o.warmup * o.warmup * o.warmup>>)))

\* self._step += 1
IncStep(o) == [o EXCEPT !._step = o._step + 1]

\* rate = self.rate(): evaluated at the current counter
CurrentRate(o) == rate(o, o._step)

\* for p in self.optimizer.param_groups: p['lr'] = rate; self._rate = rate
SetRate(o, r) ==
    [o EXCEPT !.param_groups = [g \in 1..NGroups |-> r],
              !._rate = r,
              !.rate_arg = o._step]

\* self.optimizer.step(): the wrapped optimizer updates the parameters with
\* the lr its groups hold at that moment
OptimizerStep(o) ==
    [o EXCEPT !.applied = o.param_groups, !.updates = o.updates + 1]

\* mutant of step: rate computed before the counter advances
step_rate_first(o) ==
    LET r == CurrentRate(o)
        o1 == [IncStep(o) EXCEPT !.rate_arg = o._step]
    IN  IF IsError(r) THEN o1
        ELSE OptimizerStep([SetRate(o1, r) EXCEPT !.rate_arg = o._step])

\* NoamOpt.step.  An exception in rate() leaves the counter advanced and
\* nothing else changed.
step(o) ==
    LET o1 == IncStep(o)
        r == CurrentRate(o1)
    IN  IF IsError(r) THEN [o1 EXCEPT !.rate_arg = o1._step]
        ELSE OptimizerStep(SetRate(o1, r))

\* ---------------------------------------------------------- LabelSmoothing
\* the special tokens a target vocabulary always holds: <unk>, <pad>,
\* <bos>, <eos> (the TGT field of build_dataset)
NSpecials == 4

\* smoothing values: the default 0.0, run_training's 0.1, and 0.5
Smoothings == {<<0, 1>>, <<1, 10>>, <<1, 2>>}

\* LabelSmoothing.__init__
LabelSmoothingInit(size, padding_idx, smoothing) ==
    [ size        |-> size,
      padding_idx |-> padding_idx,
      confidence  |-> RSub(ROne, smoothing),
      smoothing   |-> smoothing,
      true_dist   |-> <<>>,
      calls       |-> 0 ]

\* true_dist.fill_(v) on an n x size tensor (columns 0..size-1)
fill_(n, size, v) == [r \in 1..n |-> [c \in 0..(size - 1) |-> v]]

\* true_dist.scatter_(1, target.unsqueeze(1), v): row r, column target[r]
scatter_(d, tg, v) ==
    [r \in DOMAIN d |-> [d[r] EXCEPT ![tg[r]] = v]]

\* true_dist[:, col] = 0
zero_column(d, col) ==
    [r \in DOMAIN d |-> [d[r] EXCEPT ![col] = RZero]]

\* torch.nonzero(target == padding_idx): the rows whose target is padding
nonzero_eq(tg, padding_idx) == {r \in DOMAIN tg : tg[r] = padding_idx}

\* true_dist.index_fill_(0, rows, 0.0)
index_fill_(d, rows) ==
    [r \in DOMAIN d |->
        IF r \in rows THEN [c \in DOMAIN d[r] |-> RZero] ELSE d[r]]

\* mutant of forward: the padding column is not cleared
forward_keep_pad_column(c, tg) ==
    LET d0 == fill_(Len(tg), c.size, RDivInt(c.smoothing, c.size - 2))
        d1 == scatter_(d0, tg, c.confidence)
    IN  index_fill_(d1, nonzero_eq(tg, c.padding_idx))

\* LabelSmoothing.forward: the target distribution it builds (self.true_dist)
forward(c, tg) ==
    LET d0 == fill_(Len(tg), c.size, RDivInt(c.smoothing, c.size - 2))
        d1 == scatter_(d0, tg, c.confidence)
        d2 == zero_column(d1, c.padding_idx)
    IN  index_fill_(d2, nonzero_eq(tg, c.padding_idx))

RECURSIVE RowSum(_, _)
\* sum of row[0..k]
RowSum(row, k) == IF k < 0 THEN RZero ELSE RAdd(row[k], RowSum(row, k - 1))

LabelIdle ==
    /\ criterion = LabelSmoothingInit(NSpecials, 1, <<0, 1>>)
    /\ target = <<>>

\* ------------------------------------------------------ vocabulary, batches
\* indices of the special tokens in a torchtext vocabulary: <unk>, <pad>,
\* then the field's init and eos tokens
UNK == 0
PAD == 1
BOS == 2
EOS == 3

\* target tokens that are neither padding nor <bos>/<eos>
TrgWords == {UNK} \cup (NSpecials..(NSpecials + MaxWords - 1))
\* every index of the target vocabulary
TrgVocab == 0..(NSpecials + MaxWords - 1)
\* the source field has no init/eos token; its rows here hold <unk> or <pad>
SrcWords == {UNK}

\* a sequence of n copies of v
Rep(n, v) == [k \in 1..n |-> v]

\* the padded target rows of length T: TGT pads first, then <bos> .. <eos>
TrgRows(T) ==
    UNION { { Rep(T - 2 - n, PAD) \o <<BOS>> \o w \o <<EOS>> :
                w \in [1..n -> TrgWords] } : n \in 0..(T - 2) }

\* the padded source rows of length S: tokens, then padding
SrcRows(S) ==
    UNION { { w \o Rep(S - n, PAD) : w \in [1..n -> SrcWords] } : n \in 1..S }

\* tensor.transpose(0, 1) of a matrix held as a sequence of rows
transpose(m) ==
    IF Len(m) = 0 THEN <<>>
    ELSE [c \in 1..Len(m[1]) |-> [r \in 1..Len(m) |-> m[r][c]]]

\* a batch as a torchtext Iterator yields it: time-major src and trg, made
\* of B padded source rows s and B padded target rows t
RawBatch(s, t) == [src |-> transpose(s), trg |-> transpose(t)]

\* subsequent_mask(size) of the model package: TRUE where position i may
\* attend to position j, that is j <= i
subsequent_mask(size) ==
    [qi \in 1..size |-> [kj \in 1..size |-> kj <= qi]]

\* (t != pad).unsqueeze(-2): one mask row per sequence
pad_mask(t, pad) ==
    [b \in DOMAIN t |-> <<[j \in DOMAIN t[b] |-> t[b][j] # pad]>>]

\* mutant of make_std_mask: padding is not hidden
make_std_mask_causal_only(tg, pad) ==
    [b \in DOMAIN tg |-> subsequent_mask(Len(tg[b]))]

\* Batch.make_std_mask: the (1 x L) padding mask broadcast against the
\* (L x L) subsequent mask
make_std_mask(tg, pad) ==
    LET tgt_mask == pad_mask(tg, pad)
    IN  [b \in DOMAIN tg |->
            LET sub == subsequent_mask(Len(tg[b]))
            IN  [qi \in 1..Len(tg[b]) |->
                    [kj \in 1..Len(tg[b]) |-> tgt_mask[b][1][kj] /\ sub[qi][kj]]]]

RECURSIVE SeqSum(_)
SeqSum(q) == IF q = <<>> THEN 0 ELSE Head(q) + SeqSum(Tail(q))

\* (t != pad).data.sum()
count_not_pad(t, pad) ==
    SeqSum([b \in DOMAIN t |->
               SeqSum([j \in DOMAIN t[b] |-> IF t[b][j] # pad THEN 1 ELSE 0])])

\* mutant of BatchInit: ntokens counted on the decoder input
BatchInit_count_trg(src, trg, pad) ==
    LET t == [b \in DOMAIN trg |-> SubSeq(trg[b], 1, Len(trg[b]) - 1)]
        y == [b \in DOMAIN trg |-> SubSeq(trg[b], 2, Len(trg[b]))]
    IN  [ src      |-> src,
          src_mask |-> pad_mask(src, pad),
          trg      |-> t,
          trg_y    |-> y,
          trg_mask |-> make_std_mask(t, pad),
          ntokens  |-> count_not_pad(t, pad) ]

\* Batch.__init__ with a target: trg[:, :-1], trg[:, 1:], the masks and
\* the count of non-padding target tokens
BatchInit(src, trg, pad) ==
    LET t == [b \in DOMAIN trg |-> SubSeq(trg[b], 1, Len(trg[b]) - 1)]
        y == [b \in DOMAIN trg |-> SubSeq(trg[b], 2, Len(trg[b]))]
    IN  [ src      |-> src,
          src_mask |-> pad_mask(src, pad),
          trg      |-> t,
          trg_y    |-> y,
          trg_mask |-> make_std_mask(t, pad),
          ntokens  |-> count_not_pad(y, pad) ]

\* rebatch: torchtext's time-major tensors transposed to batch-major
rebatch(pad_idx, b) == BatchInit(transpose(b.src), transpose(b.trg), pad_idx)

\* torch.triu(torch.ones(sz, sz)) == 1
triu_ones(sz) == [qi \in 1..sz |-> [kj \in 1..sz |-> kj >= qi]]

\* mask.float().masked_fill(mask == 0, -inf).masked_fill(mask == 1, 0.0)
square_fill(m) ==
    LET f == [qi \in DOMAIN m |->
                 [kj \in DOMAIN m[qi] |-> IF m[qi][kj] THEN "1.0" ELSE "0.0"]]
        g == [qi \in DOMAIN m |->
                 [kj \in DOMAIN m[qi] |-> IF ~m[qi][kj] THEN "-inf" ELSE f[qi][kj]]]
    IN  [qi \in DOMAIN m |->
            [kj \in DOMAIN m[qi] |-> IF m[qi][kj] THEN "0.0" ELSE g[qi][kj]]]

\* mutant of generate_square_subsequent_mask: the transpose is left out
generate_square_subsequent_mask_no_transpose(sz) ==
    square_fill(triu_ones(sz))

\* generate_square_subsequent_mask
generate_square_subsequent_mask(sz) ==
    square_fill(transpose(triu_ones(sz)))

\* generate_mask(data), for data with data.size(0) = sz:
\* TRUE where attention is not allowed
generate_mask(sz) ==
    LET mask == generate_square_subsequent_mask(sz)
    IN  [qi \in 1..sz |-> [kj \in 1..sz |-> mask[qi][kj] # "0.0"]]

BatchIdle ==
    /\ raw = <<>>
    /\ batch = <<>>
    /\ gen_masks = <<>>

\* ----------------------------------------------------------- greedy_decode
\* mutant of in_range: one iteration too many
in_range_max_len(k, ml) == k < ml

\* for i in range(max_len - 1): whether iteration k runs
in_range(k, ml) == k < ml - 1

\* mutant of all_end: stop as soon as one sequence ends
any_end(next_word, end_symbol) ==
    \E b \in DOMAIN next_word : next_word[b] = end_symbol

\* all(next_word == end_symbol)
all_end(next_word, end_symbol) ==
    \A b \in DOMAIN next_word : next_word[b] = end_symbol

\* ys = torch.ones(src.size(0), 1).fill_(start_symbol)
ys_init(B, start_symbol) == [b \in 1..B |-> <<start_symbol>>]

\* ys = torch.cat([ys, next_word.unsqueeze(-1)], dim=1)
cat_column(y, next_word) == [b \in DOMAIN y |-> Append(y[b], next_word[b])]

\* where greedy_decode stands after k iterations, the last of which
\* appended next_word: the break, or the end of the range, returns ys
after_step(k, ml, next_word, end_symbol) ==
    IF all_end(next_word, end_symbol) \/ ~in_range(k, ml)
    THEN "decoded" ELSE "decode"

\* one iteration of greedy_decode's loop.  model.decode and model.generator
\* are the external model: torch.max picks any index of the vocabulary for
\* each sequence.
DecodeStep ==
    /\ pc = "decode"
    /\ \E next_word \in [DOMAIN ys -> TrgVocab] :
          /\ ys' = cat_column(ys, next_word)
          /\ pc' = after_step(i + 1, max_len, next_word, EOS)
    /\ i' = i + 1
    /\ UNCHANGED <<max_len, noamVars, labelVars, batchVars, accVars, trainVars>>

DecodeIdle ==
    /\ max_len = 1
    /\ ys = <<>>
    /\ i = 0

\* ------------------------------------------------------ calculate_accuracy
\* TO_IGNORE = [stoi[BOS_WORD], stoi[EOS_WORD]]
TO_IGNORE == <<BOS, EOS>>

RECURSIVE get_mask_from(_, _, _)
\* for symbol in to_ignore: mask = mask & (tensor != symbol)
get_mask_from(mask, row, to_ignore) ==
    IF to_ignore = <<>> THEN mask
    ELSE get_mask_from([k \in DOMAIN row |-> mask[k] /\ row[k] # Head(to_ignore)],
                       row, Tail(to_ignore))

\* mutant of get_mask: only the first symbol is ignored
get_mask_first_only(row, to_ignore) ==
    get_mask_from([k \in DOMAIN row |-> TRUE], row, SubSeq(to_ignore, 1, 1))

\* get_mask, on one row of the tensor
get_mask(row, to_ignore) ==
    get_mask_from([k \in DOMAIN row |-> TRUE], row, to_ignore)

RECURSIVE masked_select(_, _)
\* o[o_mask]: the entries whose mask is True, in order
masked_select(row, mask) ==
    IF row = <<>> THEN <<>>
    ELSE (IF Head(mask) THEN <<Head(row)>> ELSE <<>>)
             \o masked_select(Tail(row), Tail(mask))

\* matches: (len(out) == len(tgt)) and all(out.eq(tgt))
matches(o, t) ==
    (Len(o) = Len(t)) /\ (\A k \in DOMAIN o : o[k] = t[k])

\* the list comprehension over zip(out, get_mask(out), tgt, get_mask(tgt))
correct_items(o, t) ==
    [b \in (DOMAIN o) \cap (DOMAIN t) |->
        IF matches(masked_select(o[b], get_mask(o[b], TO_IGNORE)),
                   masked_select(t[b], get_mask(t[b], TO_IGNORE)))
        THEN 1 ELSE 0]

\* accuracy = (correct / total) if (total > 0) else 0
accuracy_of(c, t) == IF t > 0 THEN <<c, t>> ELSE RZero

AccIdle ==
    /\ test_iter = 0
    /\ total = 0
    /\ correct = 0
    /\ tgt = <<>>
    /\ accuracy = <<>>
    /\ seen = [n |-> 0, ok |-> 0]

\* ------------------------------------------------------------ loss computes
\* MultiGPULossCompute's default chunk_size
chunk_size == 5

\* len(range(0, L, chunk_size))
nchunks(L) == (L + chunk_size - 1) \div chunk_size

BackwardEvents == {"loss.backward", "l_value.backward", "out.backward"}

\* no backward pass accumulated, no update made
GradInit == [pending |-> 0, used |-> 0]

\* a backward pass: its gradients add to what the parameters' .grad hold
backward(st, name) ==
    [st EXCEPT !.grad.pending = st.grad.pending + 1,
               !.events = Append(st.events, name)]

\* self.opt.step(); self.opt.optimizer.zero_grad()
opt_step_zero_grad(st) ==
    [st EXCEPT !.opt = step(st.opt),
               !.grad = [pending |-> 0, used |-> st.grad.pending],
               !.events = st.events \o <<"opt.step", "zero_grad">>]

\* (c / norm) * norm on tensors: c again when norm > 0, NaN when norm is 0
\* (a tensor division by zero raises nothing)
scaled_back(c, norm) == Reduce(RMul(RDivInt(<<c, 1>>, norm), <<norm, 1>>))

\* mutant of SimpleLossCompute: the optimizer is stepped on every call
SimpleLossCompute_always_step(o, has_opt, g, cs, norm) ==
    LET st0 == [opt |-> o, grad |-> g, loss |-> scaled_back(cs[1], norm),
                events |-> <<"generator", "criterion">>]
    IN  opt_step_zero_grad(backward(st0, "loss.backward"))

\* SimpleLossCompute.__call__(x, y, norm): cs[1] is the criterion's value on
\* the batch; the call returns loss.data * norm, loss being criterion / norm
SimpleLossCompute(o, has_opt, g, cs, norm) ==
    LET st0 == [opt |-> o, grad |-> g, loss |-> scaled_back(cs[1], norm),
                events |-> <<"generator", "criterion">>]
        st1 == backward(st0, "loss.backward")
    IN  IF has_opt THEN opt_step_zero_grad(st1) ELSE st1

RECURSIVE multi_chunks_step_each(_, _, _)
\* mutant of multi_chunks: an optimizer step after every chunk
multi_chunks_step_each(st, has_opt, cs) ==
    IF cs = <<>> THEN st
    ELSE LET st1 == [st EXCEPT !.loss = st.loss + Head(cs),
                               !.events = st.events
                                            \o <<"generator", "criterion">>]
             st2 == IF has_opt
                    THEN opt_step_zero_grad(backward(st1, "l_value.backward"))
                    ELSE st1
         IN  multi_chunks_step_each(st2, has_opt, Tail(cs))

RECURSIVE multi_chunks(_, _, _)
\* the chunk loop of MultiGPULossCompute.__call__: cs[k] is the gathered,
\* summed criterion value of chunk k
multi_chunks(st, has_opt, cs) ==
    IF cs = <<>> THEN st
    ELSE LET st1 == [st EXCEPT !.loss = st.loss + Head(cs),
                               !.events = st.events
                                            \o <<"generator", "criterion">>]
             st2 == IF has_opt THEN backward(st1, "l_value.backward") ELSE st1
         IN  multi_chunks(st2, has_opt, Tail(cs))

\* MultiGPULossCompute.__call__(out, targets, normalize): every chunk adds
\* its value / normalize to total, and the call returns total * normalize
MultiGPULossCompute(o, has_opt, g, cs, normalize) ==
    LET st0 == [opt |-> o, grad |-> g, loss |-> 0, events |-> <<>>]
        st1 == multi_chunks(st0, has_opt, cs)
        st2 == IF has_opt
               THEN opt_step_zero_grad(backward(st1, "out.backward"))
               ELSE st1
    IN  [st2 EXCEPT !.loss = scaled_back(st1.loss, normalize)]

\* get_loss_compute(...)(out, trg_y, ntokens)
loss_compute(cuda_enabled, o, has_opt, g, cs, norm) ==
    IF cuda_enabled THEN MultiGPULossCompute(o, has_opt, g, cs, norm)
    ELSE SimpleLossCompute(o, has_opt, g, cs, norm)

\* the criterion values a call on an output of L time steps may see: one per
\* chunk on several devices, one for the batch otherwise
LossValues(cuda_enabled, L) ==
    [1..(IF cuda_enabled THEN nchunks(L) ELSE 1) -> 0..MaxLoss]

\* the criterion values of a batch of run_training: outputs of 1..MaxOutLen
\* time steps, hence every number of chunks that allows, each chunk with the
\* same value (the values themselves vary in run_epoch on its own)
ChunkValues(cuda_enabled) ==
    UNION { [1..(IF cuda_enabled THEN nchunks(L) ELSE 1) -> {MaxLoss}] :
              L \in 1..MaxOutLen }

\* ---------------------------------------------------------------- run_epoch
\* run_epoch's locals before its loop; log_interval 0 stands for None.
\* start is the number of batches done when the clock was last read, logged
\* the loop indices at which a line was logged.
run_epoch_init(log_interval) ==
    [ i            |-> 0,
      total_tokens |-> 0,
      total_loss   |-> RZero,
      tokens       |-> 0,
      start        |-> 0,
      logged       |-> <<>>,
      log_interval |-> log_interval ]

\* the loop body after loss_compute returned ls on a batch of ntokens tokens
run_epoch_step(e, ls, ntokens) ==
    LET log == e.log_interval # 0 /\ (e.i % e.log_interval) = 1
    IN  [e EXCEPT !.total_loss = Reduce(RAdd(e.total_loss, ls)),
                  !.total_tokens = e.total_tokens + ntokens,
                  !.tokens = IF log THEN 0 ELSE e.tokens + ntokens,
                  !.start = IF log THEN e.i + 1 ELSE e.start,
                  !.logged = IF log THEN Append(e.logged, e.i) ELSE e.logged,
                  !.i = e.i + 1]

\* mutant of run_epoch_return: the division without its guard
run_epoch_return_unguarded(e) ==
    RDivInt(e.total_loss, e.total_tokens)

\* return (total_loss / total_tokens) if (total_tokens > 0) else 0
run_epoch_return(e) ==
    IF e.total_tokens > 0 THEN RDivInt(e.total_loss, e.total_tokens)
    ELSE RZero

NoCall == [phase |-> "none", has_opt |-> FALSE, chunks |-> 0, events |-> <<>>]

TrainIdle ==
    /\ cfg = <<>>
    /\ epoch = 0
    /\ ep = run_epoch_init(0)
    /\ grad = GradInit
    /\ call = NoCall
    /\ loss = <<>>
    /\ fed = <<>>

NoamIdle ==
    /\ opt = NoamOptInit(1, 1, 1)
    /\ nsteps = 0
    /\ rates = <<>>
    /\ queried = <<0, RZero>>

\* ------------------------------------------------- NoamOpt on its own
InitNoam ==
    /\ pc = "noam"
    /\ \E m \in 1..MaxModelSize, f \in 1..MaxFactor, w \in 1..MaxWarmup :
           opt = NoamOptInit(m, f, w)
    /\ nsteps = 0
    /\ rates = <<>>
    /\ queried = <<0, RZero>>
    /\ LabelIdle
    /\ BatchIdle
    /\ DecodeIdle
    /\ AccIdle
    /\ TrainIdle

\* opt.step()
NoamStepCall ==
    /\ pc = "noam"
    /\ nsteps < MaxStep
    /\ opt' = step(opt)
    /\ nsteps' = nsteps + 1
    /\ rates' = Append(rates, opt'._rate)
    /\ pc' = IF IsError(CurrentRate(IncStep(opt))) THEN "raised" ELSE pc
    /\ UNCHANGED <<queried, labelVars, batchVars, decodeVars, accVars,
                   trainVars>>

\* opt.rate(step=s)
NoamRateCall ==
    /\ pc = "noam"
    /\ \E s \in 1..MaxStep : queried' = <<s, rate(opt, s)>>
    /\ UNCHANGED <<pc, opt, nsteps, rates, labelVars, batchVars, decodeVars,
                   accVars, trainVars>>

NextNoam == NoamStepCall \/ NoamRateCall

vars == <<pc, noamVars, labelVars, batchVars, decodeVars, accVars, trainVars>>

SpecNoam == InitNoam /\ [][NextNoam]_vars

\* ------------------------------------------------------ claims on NoamOpt
\* C5 (state part): the counter starts at 0 and equals the number of step()
\* calls made; step() evaluates rate at the advanced counter, never at 0;
\* when the wrapped optimizer's update runs, every parameter group already
\* holds the new rate.
C5_StepState ==
    /\ opt._step = nsteps
    /\ opt.updates = nsteps
    /\ nsteps = 0 => opt.rate_arg = -1
    /\ nsteps >= 1 =>
          /\ opt.rate_arg = opt._step
          /\ opt.rate_arg >= 1
          /\ ~IsError(opt._rate)
          /\ opt._rate = rates[nsteps]
          /\ \A g \in 1..NGroups :
                /\ opt.param_groups[g] = opt._rate
                /\ opt.applied[g] = opt._rate

\* C5 (step part): only step() changes the counter, and by exactly one.
C5_OnlyStepAdvances ==
    [][opt'._step # opt._step =>
          (opt'._step = opt._step + 1 /\ nsteps' = nsteps + 1)]_vars

\* C5: NoamOpt's counter starts at 0, each step() advances it by exactly one
\* before the rate is computed (so rate is never evaluated at 0 by step()),
\* the rate is in every parameter group before the wrapped optimizer
\* updates, and nothing but step() changes the counter.
C5_NoamCounter == []C5_StepState /\ C5_OnlyStepAdvances

C5_Witness ==
    /\ pc = "noam"
    /\ nsteps >= 2
    /\ opt.updates >= 2
    /\ queried[1] >= 1

\* C6: for every step s >= 1 the rate is strictly positive, equals
\* factor * model_size^-0.5 * s * warmup^-1.5 while s <= warmup and
\* factor * model_size^-0.5 * s^-0.5 from warmup on, is non-decreasing up
\* to warmup and non-increasing afterwards, so rate(warmup) is the maximum.
C6_RateShape ==
    LET f2 == opt.factor * opt.factor
        m == opt.model_size
        w == opt.warmup
        n == Len(rates)
    IN  /\ queried[1] >= 1 => RLt(RZero, queried[2])
        /\ \A k \in 1..n :
              /\ RLt(RZero, rates[k])
              /\ k <= w => REq(rates[k], <<f2 * k * k, m * w * w * w>>)
              /\ k >= w => REq(rates[k], <<f2, m * k>>)
              /\ \A j \in 1..k :
                    /\ k <= w => RLe(rates[j], rates[k])
                    /\ j >= w => RLe(rates[k], rates[j])
              /\ n >= w => RLe(rates[k], rates[w])

C6_Witness ==
    /\ opt.warmup >= 2
    /\ Len(rates) >= opt.warmup + 2
    /\ RLt(rates[1], rates[opt.warmup])
    /\ RLt(rates[Len(rates)], rates[opt.warmup])

\* --------------------------------- NoamOpt built from any arguments
\* NoamOpt(model_size, factor, warmup, optimizer) with a model size or a
\* warm-up that may be 0: __init__ only stores its arguments, so the object
\* exists and step() / rate() may be called on it
InitNoamAny ==
    /\ pc = "noam"
    /\ \E m \in 0..MaxModelSize, f \in 1..MaxFactor, w \in 0..MaxWarmup :
           opt = NoamOptInit(m, f, w)
    /\ nsteps = 0
    /\ rates = <<>>
    /\ queried = <<0, RZero>>
    /\ LabelIdle
    /\ BatchIdle
    /\ DecodeIdle
    /\ AccIdle
    /\ TrainIdle

SpecNoamAny == InitNoamAny /\ [][NextNoam]_vars

\* C11: a rate schedule built with a non-positive warm-up or model size
\* fails at construction: such an object never gets to take a step, and no
\* division error surfaces inside step().
C11_FailFast ==
    (opt.warmup <= 0 \/ opt.model_size <= 0) =>
        /\ nsteps = 0
        /\ pc # "raised"

\* ------------------------------------------- LabelSmoothing on its own
InitLabel ==
    /\ pc = "label"
    /\ \E size \in NSpecials..(NSpecials + MaxWords) :
       \E padding_idx \in 0..(size - 1), smoothing \in Smoothings :
           criterion = LabelSmoothingInit(size, padding_idx, smoothing)
    /\ target = <<>>
    /\ NoamIdle
    /\ BatchIdle
    /\ DecodeIdle
    /\ AccIdle
    /\ TrainIdle

\* criterion(x, target), for x with criterion.size columns
ForwardCall ==
    /\ pc = "label"
    /\ \E n \in 1..MaxRows :
       \E tg \in [1..n -> 0..(criterion.size - 1)] :
           /\ target' = tg
           /\ criterion' = [criterion EXCEPT
                               !.true_dist = forward(criterion, tg),
                               !.calls = 1]
    /\ UNCHANGED <<pc, noamVars, batchVars, decodeVars, accVars, trainVars>>

NextLabel == ForwardCall

SpecLabel == InitLabel /\ [][NextLabel]_vars

\* C7: in the distribution built by forward, a row whose target is not the
\* padding id has mass 1 - smoothing on the target class, smoothing/(size-2)
\* on every other non-padding class and sums to 1; a row whose target is the
\* padding id is all zeros; the padding column is 0 in every row.
C7_TrueDist ==
    criterion.calls > 0 =>
        LET d == criterion.true_dist
            pad == criterion.padding_idx
            cols == 0..(criterion.size - 1)
        IN  /\ DOMAIN d = DOMAIN target
            /\ \A r \in DOMAIN target :
                  /\ d[r][pad] = RZero
                  /\ target[r] = pad => \A c \in cols : d[r][c] = RZero
                  /\ target[r] # pad =>
                        /\ REq(d[r][target[r]],
                               RSub(ROne, criterion.smoothing))
                        /\ \A c \in cols \ {pad, target[r]} :
                              REq(RMul(d[r][c], <<criterion.size - 2, 1>>),
                                  criterion.smoothing)
                        /\ REq(RowSum(d[r], criterion.size - 1), ROne)

C7_Witness ==
    /\ criterion.calls > 0
    /\ RLt(RZero, criterion.smoothing)
    /\ \E r \in DOMAIN target : target[r] = criterion.padding_idx
    /\ \E r \in DOMAIN target : target[r] # criterion.padding_idx

\* ------------------------------------------------------- batches and masks
InitBatch ==
    /\ pc = "batch"
    /\ \E B \in 1..MaxBatch, S \in 1..MaxSrcLen, T \in 2..MaxTrgLen :
       \E s \in [1..B -> SrcRows(S)], t \in [1..B -> TrgRows(T)] :
           raw = RawBatch(s, t)
    /\ batch = <<>>
    /\ gen_masks = <<>>
    /\ NoamIdle
    /\ LabelIdle
    /\ DecodeIdle
    /\ AccIdle
    /\ TrainIdle

\* run_epoch: rebatch(pad_idx, b) on the batch drawn from the iterator
Rebatch ==
    /\ pc = "batch"
    /\ batch = <<>>
    /\ batch' = rebatch(PAD, raw)
    /\ UNCHANGED <<pc, raw, gen_masks, noamVars, labelVars, decodeVars,
                   accVars, trainVars>>

\* Transformer.forward: generate_mask(src), generate_mask(tgt) on the
\* time-major tensors
TransformerMasks ==
    /\ pc = "batch"
    /\ gen_masks = <<>>
    /\ gen_masks' = [ src_mask |-> generate_mask(Len(raw.src)),
                      tgt_mask |-> generate_mask(Len(raw.trg)) ]
    /\ UNCHANGED <<pc, raw, batch, noamVars, labelVars, decodeVars, accVars,
                   trainVars>>

NextBatch == Rebatch \/ TransformerMasks

SpecBatch == InitBatch /\ [][NextBatch]_vars

\* the target sequences given to Batch, batch-major
OrigTrg == [b \in 1..Len(raw.trg[1]) |-> [t \in 1..Len(raw.trg) |-> raw.trg[t][b]]]
OrigSrc == [b \in 1..Len(raw.src[1]) |-> [t \in 1..Len(raw.src) |-> raw.src[t][b]]]

C9_CausalMask ==
    gen_masks # <<>> =>
        \A m \in {gen_masks.src_mask, gen_masks.tgt_mask} :
            LET L == Len(m)
            IN  /\ \A qi \in 1..L : Len(m[qi]) = L
                /\ \A qi \in 1..L : \A kj \in 1..L : m[qi][kj] <=> (kj > qi)
                /\ 2 * Cardinality({ p \in (1..L) \X (1..L) : m[p[1]][p[2]] })
                      = L * (L - 1)

C9_Witness ==
    /\ gen_masks # <<>>
    /\ Len(gen_masks.tgt_mask) = 3
    /\ gen_masks.tgt_mask[1][3]
    /\ ~gen_masks.tgt_mask[3][1]

\* C10: target-mask entry (i, j) is attendable iff j <= i and decoder-input
\* token j is not padding; the source mask marks a position attendable iff
\* its token is not padding, whatever the querying position.
C10_BatchMasks ==
    batch # <<>> =>
        /\ DOMAIN batch.trg_mask = DOMAIN OrigTrg
        /\ \A b \in DOMAIN OrigTrg :
              LET L == Len(raw.trg) - 1
              IN  /\ DOMAIN batch.trg_mask[b] = 1..L
                  /\ \A qi \in 1..L :
                        /\ DOMAIN batch.trg_mask[b][qi] = 1..L
                        /\ \A kj \in 1..L :
                              batch.trg_mask[b][qi][kj]
                                 <=> (kj <= qi /\ OrigTrg[b][kj] # PAD)
        /\ DOMAIN batch.src_mask = DOMAIN OrigSrc
        /\ \A b \in DOMAIN OrigSrc :
              /\ Len(batch.src_mask[b]) = 1
              /\ DOMAIN batch.src_mask[b][1] = 1..Len(raw.src)
              /\ \A kj \in 1..Len(raw.src) :
                    batch.src_mask[b][1][kj] <=> (OrigSrc[b][kj] # PAD)

C10_Witness ==
    /\ batch # <<>>
    /\ \E b \in DOMAIN batch.trg :
          /\ Len(batch.trg[b]) = 2
          /\ batch.trg[b][1] = PAD
          /\ ~batch.trg_mask[b][2][1]
          /\ batch.trg_mask[b][2][2]
    /\ \E b \in DOMAIN batch.trg :
          /\ Len(batch.trg[b]) = 2
          /\ batch.trg_mask[b][2][1]
          /\ ~batch.trg_mask[b][1][2]
    /\ \E b \in DOMAIN batch.src :
          /\ Len(batch.src[b]) = 2
          /\ ~batch.src_mask[b][1][2]

\* ------------------------------------------------- greedy_decode on its own
\* greedy_decode(model, src, src_mask, max_len, BOS, EOS) up to its loop
InitDecode ==
    /\ \E B \in 1..MaxBatch : ys = ys_init(B, BOS)
    /\ max_len \in 1..MaxLen
    /\ i = 0
    /\ pc = IF in_range(0, max_len) THEN "decode" ELSE "decoded"
    /\ NoamIdle
    /\ LabelIdle
    /\ BatchIdle
    /\ AccIdle
    /\ TrainIdle

NextDecode == DecodeStep

SpecDecode == InitDecode /\ [][NextDecode]_vars

\* whether step k (which wrote column k + 1) appended EOS to every sequence
AllEosAt(k) == \A b \in DOMAIN ys : ys[b][k + 1] = EOS

\* C1: greedy_decode makes at most max_len - 1 steps, so the sequences have
\* length at most max_len; when every sequence predicts end_symbol at the
\* first step the returned length is exactly 2.
C1_DecodeBound ==
    /\ i <= max_len - 1
    /\ \A b \in DOMAIN ys : Len(ys[b]) = i + 1 /\ Len(ys[b]) <= max_len
    /\ (i >= 1 /\ AllEosAt(1)) =>
          /\ pc = "decoded"
          /\ \A b \in DOMAIN ys : ys[b] = <<BOS, EOS>>

C1_Witness ==
    /\ pc = "decoded"
    /\ max_len = 3
    /\ Len(ys) = 2
    /\ i = 1
    /\ AllEosAt(1)

\* C2: greedy_decode returns before max_len exactly at the first step whose
\* appended token is end_symbol for every sequence at once; every step
\* appends to every sequence, also to one that already emitted end_symbol,
\* and a batch with no such step runs to max_len.
C2_WholeBatchStop ==
    /\ \A b \in DOMAIN ys : Len(ys[b]) = i + 1
    /\ \A k \in 1..(i - 1) : ~AllEosAt(k)
    /\ (i >= 1 /\ AllEosAt(i)) => pc = "decoded"
    /\ pc = "decoded" =>
          /\ i < max_len - 1 => AllEosAt(i)
          /\ (\A k \in 1..i : ~AllEosAt(k)) => i = max_len - 1
    /\ pc = "decode" => i < max_len - 1

C2_Witness ==
    /\ pc = "decoded"
    /\ max_len = 3
    /\ Len(ys) = 2
    /\ ys[1] = <<BOS, EOS, UNK>>
    /\ ys[2] = <<BOS, UNK, EOS>>

\* ------------------------------------------------------ calculate_accuracy
\* calculate_accuracy(model, test_iter, SRC, TGT) before its loop
InitAccuracy ==
    /\ pc = "acc_loop"
    /\ test_iter \in 0..MaxBatches
    /\ total = 0
    /\ correct = 0
    /\ tgt = <<>>
    /\ accuracy = <<>>
    /\ seen = [n |-> 0, ok |-> 0]
    /\ max_len = AccLen
    /\ ys = <<>>
    /\ i = 0
    /\ NoamIdle
    /\ LabelIdle
    /\ BatchIdle
    /\ TrainIdle

\* the loop draws the next batch and calls greedy_decode on its src
AccNextBatch ==
    /\ pc \in {"acc_loop", "scored"}
    /\ test_iter > 0
    /\ test_iter' = test_iter - 1
    /\ \E B \in 1..AccBatch : ys' = ys_init(B, BOS)
    /\ i' = 0
    /\ tgt' = <<>>
    /\ pc' = IF in_range(0, max_len) THEN "decode" ELSE "decoded"
    /\ UNCHANGED <<max_len, total, correct, accuracy, seen, noamVars,
                   labelVars, batchVars, trainVars>>

\* the decoded and the reference tokens agree once <bos>/<eos> are removed
Strip(row) == SelectSeq(row, LAMBDA x : x \notin {BOS, EOS})
Agree(o, t) == Strip(o) = Strip(t)

\* out is back: tgt = batch.trg.transpose(0, 1), the batch is scored.  The
\* reference is drawn here: the model never sees it.
AccScore ==
    /\ pc = "decoded"
    /\ \E T \in 2..MaxTrgLen : \E t \in [DOMAIN ys -> TrgRows(T)] :
          /\ tgt' = t
          /\ total' = total + Len(t)
          /\ correct' = correct + SeqSum(correct_items(ys, t))
          /\ seen' = [n |-> seen.n + Len(t),
                      ok |-> seen.ok
                              + Cardinality({b \in DOMAIN t : Agree(ys[b], t[b])})]
    /\ pc' = "scored"
    /\ UNCHANGED <<max_len, ys, i, test_iter, accuracy, noamVars, labelVars,
                   batchVars, trainVars>>

\* the iterator is exhausted: the accuracy is returned
AccReturn ==
    /\ pc \in {"acc_loop", "scored"}
    /\ test_iter = 0
    /\ accuracy' = accuracy_of(correct, total)
    /\ pc' = "acc_done"
    /\ UNCHANGED <<max_len, ys, i, test_iter, total, correct, tgt, seen,
                   noamVars, labelVars, batchVars, trainVars>>

NextAccuracy == AccNextBatch \/ DecodeStep \/ AccScore \/ AccReturn

SpecAccuracy == InitAccuracy /\ [][NextAccuracy]_vars

\* C3: calculate_accuracy returns correct / total over all validation
\* sequences, a sequence being correct iff its decoded and its reference
\* tokens, <bos>/<eos> removed, have the same length and are elementwise
\* equal; the result is in [0, 1], is 1 when every sequence matches, 0 when
\* none does, and 0 for an empty iterator.
C3_Accuracy ==
    /\ total = seen.n
    /\ correct = seen.ok
    /\ pc = "acc_done" =>
          /\ seen.n > 0 => REq(accuracy, <<seen.ok, seen.n>>)
          /\ RLe(RZero, accuracy) /\ RLe(accuracy, ROne)
          /\ (seen.n > 0 /\ seen.ok = seen.n) => REq(accuracy, ROne)
          /\ seen.ok = 0 => REq(accuracy, RZero)
          /\ seen.n = 0 => accuracy = RZero

C3_Witness ==
    /\ pc = "acc_done"
    /\ seen.n >= 2
    /\ seen.ok >= 1
    /\ seen.ok < seen.n

\* ------------------------------------------------------ run_epoch on its own
\* run_epoch(data_iter, model, loss_compute, pad_idx, log_interval) on an
\* iterator of cfg.nbatches batches (possibly none), with either loss
\* compute, with or without an optimizer, and any log_interval (0: None)
InitEpoch ==
    /\ pc = "epoch"
    /\ cfg \in [ cuda_enabled : BOOLEAN,
                 has_opt      : BOOLEAN,
                 nbatches     : 0..MaxTrainBatches,
                 log_interval : 0..MaxLogInterval ]
    /\ opt = NoamOptInit(MaxModelSize, 1, MaxWarmup)
    /\ nsteps = 0
    /\ rates = <<>>
    /\ queried = <<0, RZero>>
    /\ epoch = 0
    /\ ep = run_epoch_init(cfg.log_interval)
    /\ grad = GradInit
    /\ call = NoCall
    /\ loss = <<>>
    /\ fed = <<>>
    /\ LabelIdle
    /\ BatchIdle
    /\ DecodeIdle
    /\ AccIdle

\* one pass of run_epoch's loop.  batch.ntokens is 0 when every position of
\* trg_y is padding; the criterion's value on such a batch is 0.
EpochBatch ==
    /\ pc = "epoch"
    /\ ep.i < cfg.nbatches
    /\ \E ntokens \in 0..MaxTokens :
       \E cs \in UNION { LossValues(cfg.cuda_enabled, L) : L \in 1..MaxOutLen } :
          LET r == loss_compute(cfg.cuda_enabled, opt, cfg.has_opt, grad, cs,
                                ntokens)
          IN  /\ ntokens = 0 => \A k \in DOMAIN cs : cs[k] = 0
              /\ opt' = r.opt
              /\ grad' = r.grad
              /\ call' = [phase |-> "epoch", has_opt |-> cfg.has_opt,
                          chunks |-> Len(cs), events |-> r.events]
              /\ ep' = run_epoch_step(ep, r.loss, ntokens)
              /\ fed' = Append(fed, <<SeqSum(cs), ntokens>>)
    /\ nsteps' = IF cfg.has_opt THEN nsteps + 1 ELSE nsteps
    /\ rates' = IF cfg.has_opt THEN Append(rates, opt'._rate) ELSE rates
    /\ UNCHANGED <<pc, queried, cfg, epoch, loss, labelVars, batchVars,
                   decodeVars, accVars>>

\* the iterator is exhausted: run_epoch returns
EpochReturn ==
    /\ pc = "epoch"
    /\ ep.i = cfg.nbatches
    /\ loss' = run_epoch_return(ep)
    /\ pc' = "epoch_done"
    /\ UNCHANGED <<noamVars, cfg, epoch, ep, grad, call, fed, labelVars,
                   batchVars, decodeVars, accVars>>

NextEpoch == EpochBatch \/ EpochReturn

SpecEpoch == InitEpoch /\ [][NextEpoch]_vars

\* tokens and criterion values of the batches processed so far
FedTokens == SeqSum([k \in DOMAIN fed |-> fed[k][2]])
FedLoss == SeqSum([k \in DOMAIN fed |-> fed[k][1]])

\* C12: run_epoch returns total_loss / total_tokens accumulated over all
\* the batches of the iterator, and returns 0, with no division error, when
\* the iterator yields no batch or the batches hold no non-padding token.
\* (A zero-token batch contributes a NaN loss, so when other batches do
\* hold tokens the quotient of the accumulated totals is NaN.)
C12_EpochLoss ==
    pc = "epoch_done" =>
        /\ Len(fed) = cfg.nbatches
        /\ ep.total_tokens = FedTokens
        /\ FedTokens = 0 => loss = RZero
        /\ (FedTokens > 0 /\ \A k \in DOMAIN fed : fed[k][2] > 0) =>
              /\ ~IsNaN(loss)
              /\ REq(loss, <<FedLoss, FedTokens>>)
        /\ (FedTokens > 0 /\ \E k \in DOMAIN fed : fed[k][2] = 0) =>
              IsNaN(loss)

C12_Witness ==
    /\ pc = "epoch_done"
    /\ Len(fed) >= 2
    /\ \A k \in DOMAIN fed : fed[k][2] > 0
    /\ FedLoss > 0
    /\ REq(loss, <<FedLoss, FedTokens>>)

\* C13: with a log interval k >= 1 a progress line is logged once every k
\* batches (so at least n div k lines after n batches, k batches apart),
\* and a log resets only the throughput window: total_loss and
\* total_tokens keep covering every batch processed so far.
C13_LogEveryK ==
    (pc \in {"epoch", "epoch_done"} /\ ep.log_interval >= 1) =>
        LET k == ep.log_interval
            n == Len(ep.logged)
        IN  /\ n >= ep.i \div k
            /\ \A j \in 1..(n - 1) : ep.logged[j + 1] = ep.logged[j] + k
            /\ ep.i = Len(fed)
            /\ ep.total_tokens = FedTokens
            /\ (\A q \in DOMAIN fed : fed[q][2] > 0) =>
                  ep.total_loss = <<FedLoss, 1>>
            /\ ep.tokens =
                  SeqSum([q \in 1..(ep.i - ep.start) |-> fed[ep.start + q][2]])

\* ------------------------------------------------------------- run_training
\* run_training up to its first run_epoch: the criterion and the optimizer
\* wrapper are built once, before the epoch loop
InitTrain ==
    /\ pc = "train"
    /\ cfg \in [ epochs       : 1..MaxEpochs,
                 cuda_enabled : BOOLEAN,
                 ntrain       : 1..MaxTrainBatches,
                 nvalid       : 0..MaxValidBatches,
                 log_interval : 0..MaxLogInterval,
                 warm_up      : {MaxWarmup} ]
    /\ opt = NoamOptInit(MaxModelSize, 1, cfg.warm_up)
    /\ nsteps = 0
    /\ rates = <<>>
    /\ queried = <<0, RZero>>
    /\ epoch = 0
    /\ ep = run_epoch_init(cfg.log_interval)
    /\ grad = GradInit
    /\ call = NoCall
    /\ loss = <<>>
    /\ fed = <<>>
    /\ LabelIdle
    /\ BatchIdle
    /\ DecodeIdle
    /\ AccIdle

\* one batch of the training run_epoch: loss_compute holds model_opt.  The
\* batch holds MaxTokens tokens (token counts vary in run_epoch on its own).
TrainBatch ==
    /\ pc = "train"
    /\ ep.i < cfg.ntrain
    /\ \E ntokens \in {MaxTokens} :
       \E cs \in ChunkValues(cfg.cuda_enabled) :
          LET r == loss_compute(cfg.cuda_enabled, opt, TRUE, grad, cs, ntokens)
          IN  /\ opt' = r.opt
              /\ grad' = r.grad
              /\ call' = [phase |-> "train", has_opt |-> TRUE,
                          chunks |-> Len(cs), events |-> r.events]
              /\ ep' = run_epoch_step(ep, r.loss, ntokens)
    /\ nsteps' = nsteps + 1
    /\ rates' = Append(rates, opt'._rate)
    /\ UNCHANGED <<pc, queried, cfg, epoch, loss, fed, labelVars, batchVars,
                   decodeVars, accVars>>

\* where run_training goes after an epoch's last call
next_epoch_pc == IF epoch + 1 < cfg.epochs THEN "train" ELSE "finished"

\* the training run_epoch returns: the evaluation follows if there is a
\* validation iterator, the next epoch otherwise
TrainReturn ==
    /\ pc = "train"
    /\ ep.i = cfg.ntrain
    /\ IF cfg.nvalid > 0
       THEN /\ pc' = "eval"
            /\ ep' = run_epoch_init(0)
            /\ epoch' = epoch
       ELSE /\ pc' = next_epoch_pc
            /\ ep' = run_epoch_init(cfg.log_interval)
            /\ epoch' = epoch + 1
    /\ UNCHANGED <<noamVars, cfg, grad, call, loss, fed, labelVars,
                   batchVars, decodeVars, accVars>>

\* one batch of the evaluation run_epoch: loss_compute holds no optimizer
EvalBatch ==
    /\ pc = "eval"
    /\ ep.i < cfg.nvalid
    /\ \E ntokens \in {MaxTokens} :
       \E cs \in ChunkValues(cfg.cuda_enabled) :
          LET r == loss_compute(cfg.cuda_enabled, opt, FALSE, grad, cs, ntokens)
          IN  /\ opt' = r.opt
              /\ grad' = r.grad
              /\ call' = [phase |-> "eval", has_opt |-> FALSE,
                          chunks |-> Len(cs), events |-> r.events]
              /\ ep' = run_epoch_step(ep, r.loss, ntokens)
    /\ UNCHANGED <<pc, nsteps, rates, queried, cfg, epoch, loss, fed,
                   labelVars, batchVars, decodeVars, accVars>>

\* the evaluation run_epoch returns its mean loss
EvalReturn ==
    /\ pc = "eval"
    /\ ep.i = cfg.nvalid
    /\ loss' = run_epoch_return(ep)
    /\ pc' = "accuracy"
    /\ UNCHANGED <<noamVars, cfg, epoch, ep, grad, call, fed, labelVars,
                   batchVars, decodeVars, accVars>>

\* calculate_accuracy(model, valid_iter, SRC, TGT): decoding runs under
\* no_grad and without a loss compute; then the next epoch
AccuracyPass ==
    /\ pc = "accuracy"
    /\ \E t \in 1..(AccBatch * cfg.nvalid) : \E c \in 0..t :
          accuracy' = accuracy_of(c, t)
    /\ pc' = next_epoch_pc
    /\ ep' = run_epoch_init(cfg.log_interval)
    /\ epoch' = epoch + 1
    /\ UNCHANGED <<noamVars, cfg, grad, call, loss, fed, labelVars,
                   batchVars, decodeVars, test_iter, total, correct, tgt, seen>>

NextTrain ==
    TrainBatch \/ TrainReturn \/ EvalBatch \/ EvalReturn \/ AccuracyPass

SpecTrain == InitTrain /\ [][NextTrain]_vars

\* C4: no batch of an evaluation phase triggers a backward pass: the loss
\* compute built without an optimizer only yields the loss, on one device
\* and on several.
C4_EvalNoBackward ==
    call.phase = "eval" =>
        /\ ~call.has_opt
        /\ \A k \in DOMAIN call.events : call.events[k] \notin BackwardEvents

\* C4, on several devices only
C4_EvalNoBackwardMulti ==
    (call.phase = "eval" /\ cfg.cuda_enabled) =>
        /\ ~call.has_opt
        /\ \A k \in DOMAIN call.events : call.events[k] \notin BackwardEvents

\* how many times x occurs among the events of a call
Count(ev, x) == Cardinality({k \in DOMAIN ev : ev[k] = x})

\* C14: a loss-compute call, on one device or on several, makes exactly one
\* optimizer step followed by one gradient clear when it holds an optimizer,
\* and no step when it holds none; on several devices the step comes after
\* every chunk was processed and the assembled gradient backpropagated,
\* however many chunks there are.
C14_OneStepPerCall ==
    call.phase # "none" =>
        LET ev == call.events
            n == Len(ev)
        IN  /\ call.has_opt =>
                  /\ Count(ev, "opt.step") = 1
                  /\ Count(ev, "zero_grad") = 1
                  /\ ev[n - 1] = "opt.step"
                  /\ ev[n] = "zero_grad"
            /\ (call.has_opt /\ cfg.cuda_enabled) =>
                  /\ ev[n - 2] = "out.backward"
                  /\ Count(ev, "out.backward") = 1
                  /\ Count(ev, "criterion") = call.chunks
                  /\ Count(ev, "l_value.backward") = call.chunks
            /\ ~call.has_opt =>
                  /\ Count(ev, "opt.step") = 0
                  /\ Count(ev, "zero_grad") = 0

C14_Witness ==
    /\ call.phase = "train"
    /\ call.has_opt
    /\ cfg.cuda_enabled
    /\ call.chunks >= 2
    /\ opt.updates >= 1

\* training batches processed so far in all epochs
trained ==
    IF pc = "train" THEN epoch * cfg.ntrain + ep.i
    ELSE IF pc \in {"eval", "accuracy"} THEN (epoch + 1) * cfg.ntrain
    ELSE epoch * cfg.ntrain

\* C15 (state part): the one wrapper's counter equals the number of training
\* batches processed so far in all epochs.
C15_CounterIsBatches ==
    /\ nsteps = trained
    /\ opt._step = nsteps
    /\ opt.updates = nsteps

\* C15 (step part): the evaluation-loss pass and the accuracy pass never
\* advance the counter, and a training batch advances it by exactly one.
C15_OnlyTraining ==
    [][/\ pc \in {"eval", "accuracy"} => opt'._step = opt._step
       /\ (pc = "train" /\ ep'.i = ep.i + 1) => opt'._step = opt._step + 1]_vars

\* C15: across a run_training run the NoamOpt counter equals the total
\* number of training batches processed so far: the wrapper is built once,
\* is never reset between epochs, every training batch advances it by one,
\* and the evaluation and accuracy passes leave it alone.
C15_StepCounter == []C15_CounterIsBatches /\ C15_OnlyTraining

C15_Witness ==
    /\ epoch >= 1
    /\ pc = "eval"
    /\ ep.i >= 1
    /\ call.phase = "eval"
    /\ opt._step >= 2

====
